---- MODULE Spec2Model ----
(***************************************************************************)
(* Model of validators/validate_example.py: validation of an instance      *)
(* (a JSON mapping) against the Organization schema of an OpenAPI          *)
(* contract.  Python values are records [t, n, s]: t is type(v).__name__,  *)
(* n the numeric value (int, bool, float), s the characters of a str, or   *)
(* the elements of a list, or the keys of a dict, as one-character         *)
(* strings.  A dict of the contract (YAML mapping) is a TLA+ record, and   *)
(* `k in d` is k \in DOMAIN d.                                             *)
(***************************************************************************)
EXTENDS Integers, Sequences, FiniteSets, TLC

\* Largest number of fields of an instance under validation.
MaxFields == 2

VARIABLES spec, data, pc, organization_schema, all_errors, valid, errors,
          result, exc, exit_status

vars == <<spec, data, pc, organization_schema, all_errors, valid, errors,
          result, exc, exit_status>>

----------------------------------------------------------------------------
\* Python values

PyStr(s)   == [t |-> "str",      n |-> 0, s |-> s]
PyInt(n)   == [t |-> "int",      n |-> n, s |-> <<>>]
PyBool(n)  == [t |-> "bool",     n |-> n, s |-> <<>>]
PyFloat(n) == [t |-> "float",    n |-> n, s |-> <<>>]
PyList(s)  == [t |-> "list",     n |-> 0, s |-> s]
PyDict(s)  == [t |-> "dict",     n |-> 0, s |-> s]
PyNone     == [t |-> "NoneType", n |-> 0, s |-> <<>>]

\* "123E4567-e89b-12d3-a456-426614174000" (one capital: lower() matters)
UuidChars ==
  <<"1","2","3","E","4","5","6","7","-","e","8","9","b","-","1","2","d","3","-",
    "a","4","5","6","-","4","2","6","6","1","4","1","7","4","0","0","0">>

HttpChars == <<"h","t","t","p",":","/","/","h">>

Strings == { <<>>, <<"a">>, <<"a","@","b">>, <<"a","b","c","d">>,
             UuidChars, HttpChars }

Values ==
  { PyStr(s) : s \in Strings } \cup { PyInt(n) : n \in {0, 1, 3, 4} }
    \cup { PyBool(1), PyFloat(3), PyList(<<>>), PyDict(<<>>), PyNone }

\* Python's ==: numbers compare by value across int, bool and float
Numeric == {"int", "bool", "float"}

PyEq(a, b) ==
  IF a.t \in Numeric /\ b.t \in Numeric THEN a.n = b.n ELSE a = b

\* type(value).__name__
TypeName(value) == value.t

\* isinstance(value, ...) of lines 56-68; bool is a subclass of int
IsInstance(value, expected_type) ==
  CASE expected_type = "string"  -> value.t = "str"
    [] expected_type = "integer" -> value.t \in {"int", "bool"}
    [] expected_type = "number"  -> value.t \in {"int", "bool", "float"}
    [] expected_type = "array"   -> value.t = "list"
    [] expected_type = "object"  -> value.t = "dict"
    [] OTHER -> TRUE

----------------------------------------------------------------------------
\* str methods and operators used by the format checks

HexDigits == {"0","1","2","3","4","5","6","7","8","9","a","b","c","d","e","f"}

\* str.lower() on one character (the alphabet has no capitals beyond A-F)
LowerChar(c) ==
  CASE c = "A" -> "a" [] c = "B" -> "b" [] c = "C" -> "c"
    [] c = "D" -> "d" [] c = "E" -> "e" [] c = "F" -> "f"
    [] OTHER -> c

Lower(s) == [i \in 1..Len(s) |-> LowerChar(s[i])]

\* re.match(r'^[0-9a-f]{8}-[0-9a-f]{4}-[0-9a-f]{4}-[0-9a-f]{4}-[0-9a-f]{12}$')
\* ($ also matches before one trailing newline)
UuidPatternMatch(s) ==
  /\ \/ Len(s) = 36
     \/ Len(s) = 37 /\ s[37] = "\n"
  /\ \A i \in 1..36 :
       IF i \in {9, 14, 19, 24} THEN s[i] = "-" ELSE s[i] \in HexDigits

is_valid_uuid(s) == UuidPatternMatch(Lower(s))

StartsWith(s, p) ==
  /\ Len(s) >= Len(p)
  /\ \A i \in 1..Len(p) : s[i] = p[i]

HttpPrefix  == <<"h","t","t","p",":","/","/">>
HttpsPrefix == <<"h","t","t","p","s",":","/","/">>

\* '@' in value, for str (substring), list (element) and dict (key)
ContainsAt(value) == \E i \in 1..Len(value.s) : value.s[i] = "@"

----------------------------------------------------------------------------
\* Error messages (the f-strings of lines 36-98), kept structured

MissingError(field) == [msg |-> "Missing required field", field |-> field]

UnknownError(field) == [msg |-> "Unknown field", field |-> field]

MustBeError(field, expected, value) ==
  [msg |-> "must be", field |-> field, expected |-> expected,
   got |-> TypeName(value)]

EnumError(field, value, allowed) ==
  [msg |-> "not in allowed values", field |-> field, value |-> value,
   allowed |-> allowed]

FormatError(field, kind) ==
  [msg |-> "is not a valid", field |-> field, kind |-> kind]

BoundError(msg, field, bound) == [msg |-> msg, field |-> field, bound |-> bound]

\* Outcome of a block of statements: the errors appended, and the exception
\* that ended it ("" when it ran to its end)
Ok(errs) == [errors |-> errs, exc |-> ""]

Raise(e) == [errors |-> <<>>, exc |-> e]

Then(r1, r2) ==
  IF r1.exc # "" THEN r1
  ELSE [errors |-> r1.errors \o r2.errors, exc |-> r2.exc]

\* dict.get(key) with a default
Get(d, key, default) == IF key \in DOMAIN d THEN d[key] ELSE default

----------------------------------------------------------------------------
\* validate_required_fields (lines 29-38)

RECURSIVE RequiredLoop(_, _)
RequiredLoop(required_fields, names) ==
  IF required_fields = <<>> THEN <<>>
  ELSE (IF Head(required_fields) \notin names
          THEN <<MissingError(Head(required_fields))>> ELSE <<>>)
       \o RequiredLoop(Tail(required_fields), names)

Keys(d) == { d[i].name : i \in 1..Len(d) }

\* variant: presence tested by truthiness (`if not data.get(field)`)
Truthy(value) ==
  CASE value.t \in Numeric -> value.n # 0
    [] value.t \in {"str", "list", "dict"} -> value.s # <<>>
    [] OTHER -> FALSE

validate_required_fields_truthy(d, schema) ==
  RequiredLoop(Get(schema, "required", <<>>),
               { d[i].name : i \in { j \in 1..Len(d) : Truthy(d[j].value) } })

validate_required_fields(d, schema) ==
  RequiredLoop(Get(schema, "required", <<>>), Keys(d))

----------------------------------------------------------------------------
\* validate_field_types (lines 41-100), one block per comment of the source

\* lines 54-69
TypeCheck(field_name, field_value, expected_type) ==
  IF expected_type \in {"string", "integer", "number", "array", "object"}
     /\ ~IsInstance(field_value, expected_type)
  THEN Ok(<<MustBeError(field_name, expected_type, field_value)>>)
  ELSE Ok(<<>>)

\* lines 71-74
EnumCheck(field_name, field_value, field_schema) ==
  IF "enum" \in DOMAIN field_schema
     /\ ~\E i \in 1..Len(field_schema.enum) : PyEq(field_value, field_schema.enum[i])
  THEN Ok(<<EnumError(field_name, field_value, field_schema.enum)>>)
  ELSE Ok(<<>>)

\* variant: the format block guarded by the declared type
FormatCheckStringOnly(field_name, field_value, field_schema) ==
  IF "format" \notin DOMAIN field_schema
     \/ Get(field_schema, "type", "None") # "string" THEN Ok(<<>>)
  ELSE CASE field_schema.format = "uuid" ->
              IF field_value.t # "str" THEN Raise("AttributeError")
              ELSE IF ~is_valid_uuid(field_value.s)
                   THEN Ok(<<FormatError(field_name, "UUID")>>) ELSE Ok(<<>>)
         [] field_schema.format = "email" ->
              IF field_value.t \notin {"str", "list", "dict"} THEN Raise("TypeError")
              ELSE IF ~ContainsAt(field_value)
                   THEN Ok(<<FormatError(field_name, "email")>>) ELSE Ok(<<>>)
         [] field_schema.format = "uri" ->
              IF field_value.t # "str" THEN Raise("AttributeError")
              ELSE IF ~(StartsWith(field_value.s, HttpPrefix)
                        \/ StartsWith(field_value.s, HttpsPrefix))
                   THEN Ok(<<FormatError(field_name, "URI")>>) ELSE Ok(<<>>)
         [] OTHER -> Ok(<<>>)

\* lines 76-84: value.lower() and value.startswith() exist on str only,
\* `'@' not in value` needs an iterable
FormatCheck(field_name, field_value, field_schema) ==
  IF "format" \notin DOMAIN field_schema THEN Ok(<<>>)
  ELSE CASE field_schema.format = "uuid" ->
              IF field_value.t # "str" THEN Raise("AttributeError")
              ELSE IF ~is_valid_uuid(field_value.s)
                   THEN Ok(<<FormatError(field_name, "UUID")>>) ELSE Ok(<<>>)
         [] field_schema.format = "email" ->
              IF field_value.t \notin {"str", "list", "dict"} THEN Raise("TypeError")
              ELSE IF ~ContainsAt(field_value)
                   THEN Ok(<<FormatError(field_name, "email")>>) ELSE Ok(<<>>)
         [] field_schema.format = "uri" ->
              IF field_value.t # "str" THEN Raise("AttributeError")
              ELSE IF ~(StartsWith(field_value.s, HttpPrefix)
                        \/ StartsWith(field_value.s, HttpsPrefix))
                   THEN Ok(<<FormatError(field_name, "URI")>>) ELSE Ok(<<>>)
         [] OTHER -> Ok(<<>>)

\* len(value): str, list and dict have a length
HasLen(value) == value.t \in {"str", "list", "dict"}

MinLengthCheck(field_name, field_value, field_schema) ==
  IF "minLength" \notin DOMAIN field_schema THEN Ok(<<>>)
  ELSE IF ~HasLen(field_value) THEN Raise("TypeError")
  ELSE IF Len(field_value.s) < field_schema.minLength
       THEN Ok(<<BoundError("too short", field_name, field_schema.minLength)>>)
       ELSE Ok(<<>>)

\* variant: exclusive upper bound (`>=` for `>`)
MaxLengthCheckExclusive(field_name, field_value, field_schema) ==
  IF "maxLength" \notin DOMAIN field_schema THEN Ok(<<>>)
  ELSE IF ~HasLen(field_value) THEN Raise("TypeError")
  ELSE IF Len(field_value.s) >= field_schema.maxLength
       THEN Ok(<<BoundError("too long", field_name, field_schema.maxLength)>>)
       ELSE Ok(<<>>)

MaxLengthCheck(field_name, field_value, field_schema) ==
  IF "maxLength" \notin DOMAIN field_schema THEN Ok(<<>>)
  ELSE IF ~HasLen(field_value) THEN Raise("TypeError")
  ELSE IF Len(field_value.s) > field_schema.maxLength
       THEN Ok(<<BoundError("too long", field_name, field_schema.maxLength)>>)
       ELSE Ok(<<>>)

\* lines 86-91
LengthCheck(field_name, field_value, field_schema, expected_type) ==
  IF expected_type # "string" THEN Ok(<<>>)
  ELSE Then(MinLengthCheck(field_name, field_value, field_schema),
            MaxLengthCheck(field_name, field_value, field_schema))

\* value < n and value > n: defined between numbers only
MinimumCheck(field_name, field_value, field_schema) ==
  IF "minimum" \notin DOMAIN field_schema THEN Ok(<<>>)
  ELSE IF field_value.t \notin Numeric THEN Raise("TypeError")
  ELSE IF field_value.n < field_schema.minimum
       THEN Ok(<<BoundError("below minimum", field_name, field_schema.minimum)>>)
       ELSE Ok(<<>>)

MaximumCheck(field_name, field_value, field_schema) ==
  IF "maximum" \notin DOMAIN field_schema THEN Ok(<<>>)
  ELSE IF field_value.t \notin Numeric THEN Raise("TypeError")
  ELSE IF field_value.n > field_schema.maximum
       THEN Ok(<<BoundError("above maximum", field_name, field_schema.maximum)>>)
       ELSE Ok(<<>>)

\* lines 93-98
RangeCheck(field_name, field_value, field_schema, expected_type) ==
  IF expected_type \notin {"integer", "number"} THEN Ok(<<>>)
  ELSE Then(MinimumCheck(field_name, field_value, field_schema),
            MaximumCheck(field_name, field_value, field_schema))

\* lines 47-49
UnknownCheck(field_name) == Ok(<<UnknownError(field_name)>>)

\* variant: the enum block placed before the type block
KnownFieldChecksEnumFirst(field_name, field_value, field_schema) ==
  LET expected_type == Get(field_schema, "type", "None")
  IN  Then(EnumCheck(field_name, field_value, field_schema),
      Then(TypeCheck(field_name, field_value, expected_type),
      Then(FormatCheck(field_name, field_value, field_schema),
      Then(LengthCheck(field_name, field_value, field_schema, expected_type),
           RangeCheck(field_name, field_value, field_schema, expected_type)))))

\* lines 51-98: the checks of a field that has an entry in properties
KnownFieldChecks(field_name, field_value, field_schema) ==
  LET expected_type == Get(field_schema, "type", "None")
  IN  Then(TypeCheck(field_name, field_value, expected_type),
      Then(EnumCheck(field_name, field_value, field_schema),
      Then(FormatCheck(field_name, field_value, field_schema),
      Then(LengthCheck(field_name, field_value, field_schema, expected_type),
           RangeCheck(field_name, field_value, field_schema, expected_type)))))

\* variant: a field without an entry in properties is passed over in silence
FieldChecksSkipUnknown(field_name, field_value, properties) ==
  IF field_name \notin DOMAIN properties THEN Ok(<<>>)
  ELSE KnownFieldChecks(field_name, field_value, properties[field_name])

\* one iteration of the loop of line 46
FieldChecks(field_name, field_value, properties) ==
  IF field_name \notin DOMAIN properties THEN UnknownCheck(field_name)
  ELSE KnownFieldChecks(field_name, field_value, properties[field_name])

RECURSIVE FieldLoop(_, _)
FieldLoop(items, properties) ==
  IF items = <<>> THEN Ok(<<>>)
  ELSE Then(FieldChecks(Head(items).name, Head(items).value, properties),
            FieldLoop(Tail(items), properties))

validate_field_types(d, schema) ==
  FieldLoop(d, Get(schema, "properties", <<>>))

----------------------------------------------------------------------------
\* Inputs: contract documents (openapi-contract.yaml as loaded) and instances

Names == {"external_id", "name", "employees"}

\* identifier with format, bounded string; employees is not declared
SchemaA ==
  [required   |-> <<"external_id", "name">>,
   properties |->
     [external_id |-> [type |-> "string", format |-> "uuid"],
      name        |-> [type |-> "string", minLength |-> 1, maxLength |-> 3]]]

\* every sub-check on one field; external_id is required but not declared
SchemaB ==
  [required   |-> <<"name", "external_id">>,
   properties |->
     [name      |-> [type |-> "string",
                     enum |-> <<PyStr(<<"a">>), PyStr(<<"a","b","c","d">>)>>,
                     format |-> "email", minLength |-> 1, maxLength |-> 3],
      employees |-> [type |-> "integer", enum |-> <<PyInt(1), PyInt(4)>>,
                     minimum |-> 1, maximum |-> 3]]]

\* a format without a type, a format under a type that is not string;
\* no required list
SchemaC ==
  [properties |->
     [external_id |-> [format |-> "email"],
      name        |-> [type |-> "integer", format |-> "uuid"],
      employees   |-> [type |-> "number", minimum |-> 1, maximum |-> 3]]]

SchemaD ==
  [required   |-> <<"employees">>,
   properties |->
     [external_id |-> [type |-> "array"],
      name        |-> [type |-> "object"],
      employees   |-> [type |-> "string", format |-> "uri"]]]

\* no properties: every field is unknown
SchemaE == [required |-> <<"external_id", "name", "employees">>]

Info == [version |-> "1.0.0"]

Contract(schema) ==
  [info |-> Info, components |-> [schemas |-> [Organization |-> schema]]]

\* Contracts with a missing schema: no components, components: null,
\* components without schemas, schemas without Organization
Documents ==
  << Contract(SchemaA), Contract(SchemaB), Contract(SchemaC),
     Contract(SchemaD), Contract(SchemaE),
     [info |-> Info],
     [info |-> Info, components |-> PyNone],
     [info |-> Info, components |-> [parameters |-> PyNone]],
     [info |-> Info, components |-> [schemas |-> [Person |-> SchemaA]]] >>

\* A JSON object in key order: items (name, value) with distinct names
Item(name, value) == [name |-> name, value |-> value]

Items == { Item(name, value) : name \in Names, value \in Values }

RECURSIVE Instances(_)
Instances(k) ==
  IF k = 0 THEN { <<>> }
  ELSE LET shorter == Instances(k - 1)
       IN  shorter \cup
           { Append(d, it) : d \in { x \in shorter : Len(x) = k - 1 },
                             it \in Items }

DistinctKeys(d) == \A i, j \in 1..Len(d) : d[i].name = d[j].name => i = j

----------------------------------------------------------------------------
\* obj[key] of line 113: the value, or the exception the lookup raises

Subscript(obj, key) ==
  IF obj = PyNone THEN [exc |-> "TypeError", value |-> <<>>]
  ELSE IF key \notin DOMAIN obj THEN [exc |-> "KeyError", value |-> <<>>]
  ELSE [exc |-> "", value |-> obj[key]]

Subscript3(obj, k1, k2, k3) ==
  LET r1 == Subscript(obj, k1)
      r2 == Subscript(r1.value, k2)
      r3 == Subscript(r2.value, k3)
  IN  IF r1.exc # "" THEN r1 ELSE IF r2.exc # "" THEN r2 ELSE r3

----------------------------------------------------------------------------
\* validate_organization and the end of main, statement by statement

NoResult == <<>>

Init ==
  /\ \E i \in 1..Len(Documents) : spec = Documents[i]
  /\ data \in { d \in Instances(MaxFields) : DistinctKeys(d) }
  /\ pc = "resolve"
  /\ organization_schema = <<>>
  /\ all_errors = <<>>
  /\ valid = FALSE
  /\ errors = <<>>
  /\ result = NoResult
  /\ exc = ""
  /\ exit_status = -1

\* variant: an absent schema replaced by an empty one
\* (`spec.get('components', {}).get('schemas', {}).get('Organization', {})`)
ResolveSchemaWithDefault ==
  /\ pc = "resolve"
  /\ LET r == Subscript3(spec, "components", "schemas", "Organization")
     IN  organization_schema' = IF r.exc # "" THEN <<>> ELSE r.value
  /\ pc' = "required"
  /\ UNCHANGED <<spec, data, all_errors, valid, errors, result, exc, exit_status>>

\* line 113; an exception leaves validate_organization and main (line 164)
ResolveSchema ==
  /\ pc = "resolve"
  /\ LET r == Subscript3(spec, "components", "schemas", "Organization")
     IN  IF r.exc # ""
         THEN /\ exc' = r.exc
              /\ pc' = "exit"
              /\ UNCHANGED organization_schema
         ELSE /\ organization_schema' = r.value
              /\ pc' = "required"
              /\ UNCHANGED exc
  /\ UNCHANGED <<spec, data, all_errors, valid, errors, result, exit_status>>

\* lines 115-119
RunRequiredFields ==
  /\ pc = "required"
  /\ LET errs == validate_required_fields(data, organization_schema)
     IN  /\ valid' = (Len(errs) = 0)
         /\ errors' = errs
         /\ all_errors' = all_errors \o errs
  /\ pc' = "types"
  /\ UNCHANGED <<spec, data, organization_schema, result, exc, exit_status>>

\* lines 121-123
RunFieldTypes ==
  /\ pc = "types"
  /\ LET r == validate_field_types(data, organization_schema)
     IN  IF r.exc # ""
         THEN /\ exc' = r.exc
              /\ pc' = "exit"
              /\ UNCHANGED <<valid, errors, all_errors>>
         ELSE /\ valid' = (Len(r.errors) = 0)
              /\ errors' = r.errors
              /\ all_errors' = all_errors \o r.errors
              /\ pc' = "return"
              /\ UNCHANGED exc
  /\ UNCHANGED <<spec, data, organization_schema, result, exit_status>>

\* variant: returns the verdict of the last evaluator (`return valid, all_errors`)
ReturnLastValid ==
  /\ pc = "return"
  /\ result' = <<[valid |-> valid, errors |-> all_errors]>>
  /\ pc' = "exit"
  /\ UNCHANGED <<spec, data, organization_schema, all_errors, valid, errors,
                 exc, exit_status>>

\* line 125: the verdict is recomputed from all_errors, not the last `valid`
Return ==
  /\ pc = "return"
  /\ result' = <<[valid |-> Len(all_errors) = 0, errors |-> all_errors]>>
  /\ pc' = "exit"
  /\ UNCHANGED <<spec, data, organization_schema, all_errors, valid, errors,
                 exc, exit_status>>

\* lines 164-181; an uncaught exception ends the interpreter with status 1
MainExit ==
  /\ pc = "exit"
  /\ exit_status' = IF exc = "" /\ result[1].valid THEN 0 ELSE 1
  /\ pc' = "done"
  /\ UNCHANGED <<spec, data, organization_schema, all_errors, valid, errors,
                 result, exc>>

Next ==
  \/ ResolveSchema
  \/ RunRequiredFields
  \/ RunFieldTypes
  \/ Return
  \/ MainExit

Spec == Init /\ [][Next]_vars

----------------------------------------------------------------------------
\* Vocabulary of the properties

\* components.schemas.Organization is reachable by string keys
HasOrganization(doc) ==
  /\ "components" \in DOMAIN doc
  /\ doc.components # PyNone
  /\ "schemas" \in DOMAIN doc.components
  /\ doc.components.schemas # PyNone
  /\ "Organization" \in DOMAIN doc.components.schemas

Returned == result # NoResult

Properties == Get(organization_schema, "properties", <<>>)

Required == Get(organization_schema, "required", <<>>)

Known(i) == data[i].name \in DOMAIN Properties

FieldSchema(i) == Properties[data[i].name]

DeclaredType(i) == Get(FieldSchema(i), "type", "None")

Has(errs, e) == \E k \in 1..Len(errs) : errs[k] = e

HasMsg(errs, field, msg) ==
  \E k \in 1..Len(errs) : errs[k].field = field /\ errs[k].msg = msg

ErrorsFor(errs, field) ==
  LET OfField(e) == e.field = field IN SelectSeq(errs, OfField)

MissingErrors(errs) ==
  LET IsMissing(e) == e.msg = "Missing required field" IN SelectSeq(errs, IsMissing)

----------------------------------------------------------------------------
\* C1: whatever the instance and the schema, validation ends with a normal
\* (verdict, errors) result and never raises: a format, length or range check
\* that the value's shape does not support is skipped.
C1_NeverRaises ==
  (HasOrganization(spec) /\ pc = "done") => (exc = "" /\ Returned)

\* C2: the "Missing required field" errors are exactly one per name of
\* `required` that is not a key of the instance, in the order of `required`;
\* a key present with a null or empty value is not missing.
C2_MissingInRequiredOrder ==
  (HasOrganization(spec) /\ pc \notin {"resolve", "required"}) =>
    LET Absent(f) == \A i \in 1..Len(data) : data[i].name # f
        absent  == SelectSeq(Required, Absent)
        missing == MissingErrors(all_errors)
    IN  /\ Len(missing) = Len(absent)
        /\ \A k \in 1..Len(absent) : missing[k] = MissingError(absent[k])
        /\ Returned => MissingErrors(result[1].errors) = missing

C2_Witness ==
  /\ Returned
  /\ \E i \in 1..Len(data) :
       /\ data[i].value \in {PyNone, PyStr(<<>>)}
       /\ \E k \in 1..Len(Required) : Required[k] = data[i].name
  /\ Len(MissingErrors(result[1].errors)) = 2

\* C3: in the returned errors every required-field error precedes every
\* per-field error, per-field errors are grouped by field in the instance's
\* iteration order, and within a field they follow the order type, enum,
\* format, length, range; no error appears twice.
SubCheckRank(msg) ==
  CASE msg = "Unknown field" -> 1
    [] msg = "must be" -> 1
    [] msg = "not in allowed values" -> 2
    [] msg = "is not a valid" -> 3
    [] msg = "too short" -> 4
    [] msg = "too long" -> 5
    [] msg = "below minimum" -> 6
    [] msg = "above maximum" -> 7

Position(field) == CHOOSE i \in 1..Len(data) : data[i].name = field

OrderKey(e) ==
  IF e.msg = "Missing required field" THEN 0
  ELSE 10 * Position(e.field) + SubCheckRank(e.msg)

InOrder(errs) ==
  \A i, j \in 1..Len(errs) :
    i < j => /\ OrderKey(errs[i]) <= OrderKey(errs[j])
             /\ OrderKey(errs[i]) = OrderKey(errs[j]) => OrderKey(errs[i]) = 0

C3_ErrorOrder ==
  /\ InOrder(all_errors)
  /\ Returned => InOrder(result[1].errors)

C3_Witness ==
  /\ Returned
  /\ Len(data) = 2
  /\ Len(MissingErrors(result[1].errors)) >= 1
  /\ HasMsg(result[1].errors, data[1].name, "must be")
  /\ HasMsg(result[1].errors, data[1].name, "not in allowed values")
  /\ HasMsg(result[1].errors, data[1].name, "too short")
  /\ HasMsg(result[1].errors, data[2].name, "must be")

\* C4: a returned result is valid if and only if its error sequence, the
\* required-field errors followed by the per-field errors, is empty.
\* A fully conforming instance ends with (True, []).
ConformsToType(value, type) ==
  CASE type = "string"  -> value.t = "str"
    [] type = "integer" -> value.t = "int"
    [] type = "number"  -> value.t \in {"int", "float"}
    [] type = "array"   -> value.t = "list"
    [] type = "object"  -> value.t = "dict"
    [] type = "None"    -> TRUE

ConformingField(i) ==
  LET fs == FieldSchema(i)
      v  == data[i].value
  IN  /\ ConformsToType(v, DeclaredType(i))
      /\ "enum" \in DOMAIN fs => \E k \in 1..Len(fs.enum) : fs.enum[k] = v
      /\ "format" \in DOMAIN fs =>
            /\ v.t = "str"
            /\ \/ fs.format = "uuid" /\ is_valid_uuid(v.s)
               \/ fs.format = "email" /\ \E k \in 1..Len(v.s) : v.s[k] = "@"
               \/ fs.format = "uri" /\ (StartsWith(v.s, HttpPrefix)
                                       \/ StartsWith(v.s, HttpsPrefix))
      /\ "minLength" \in DOMAIN fs => Len(v.s) >= fs.minLength
      /\ "maxLength" \in DOMAIN fs => Len(v.s) <= fs.maxLength
      /\ "minimum" \in DOMAIN fs => v.n >= fs.minimum
      /\ "maximum" \in DOMAIN fs => v.n <= fs.maximum

Conforming ==
  /\ \A k \in 1..Len(Required) : \E i \in 1..Len(data) : data[i].name = Required[k]
  /\ \A i \in 1..Len(data) : Known(i) /\ ConformingField(i)

C4_ValidIffNoErrors ==
  /\ Returned =>
       /\ result[1].valid <=> (result[1].errors = <<>>)
       /\ result[1].errors = all_errors
       /\ Len(result[1].errors) >= 1 => ~result[1].valid
  /\ (HasOrganization(spec) /\ pc = "done" /\ Conforming) =>
       (Returned /\ result[1].valid /\ result[1].errors = <<>>)

\* one violation only, a missing field, after which the field checks pass
C4_Witness ==
  /\ Returned
  /\ Len(data) = 1
  /\ Len(result[1].errors) = 1
  /\ valid
  /\ ~result[1].valid

\* C5: a field that has no entry in `properties` gets exactly one
\* "Unknown field" error and no other error, whatever its value; an instance
\* of unknown fields only never raises.
C5_UnknownFieldIsolation ==
  /\ Returned =>
       \A i \in 1..Len(data) :
         ~Known(i) =>
           ErrorsFor(result[1].errors, data[i].name) = <<UnknownError(data[i].name)>>
  /\ (HasOrganization(spec) /\ pc = "done"
        /\ \A i \in 1..Len(data) : data[i].name \notin DOMAIN Properties)
       => Returned

C5_Witness ==
  /\ Returned
  /\ Len(data) = 2
  /\ ~Known(1) /\ data[1].value = PyNone
  /\ Known(2) /\ HasMsg(result[1].errors, data[2].name, "must be")
  /\ Has(result[1].errors, UnknownError(data[1].name))

\* C6: a boolean under a declared type integer gets the error "must be
\* integer, got bool"; a whole number gets no type error.
C6_BooleanIsNotInteger ==
  Returned =>
    \A i \in 1..Len(data) :
      (Known(i) /\ DeclaredType(i) = "integer") =>
        /\ data[i].value.t = "bool" =>
             Has(result[1].errors, MustBeError(data[i].name, "integer", data[i].value))
        /\ data[i].value.t = "int" =>
             ~HasMsg(result[1].errors, data[i].name, "must be")

\* C7: when components.schemas.Organization is absent from the contract the
\* run fails with SchemaNotFoundError before any rule evaluator has run, and
\* no validation result is produced.
C7_SchemaNotFoundError ==
  (~HasOrganization(spec) /\ pc # "resolve") =>
    /\ exc = "SchemaNotFoundError"
    /\ result = NoResult
    /\ all_errors = <<>> /\ errors = <<>>

\* C7 as amended: the failure is the lookup's own uncaught exception, a
\* KeyError (a TypeError when a mapping on the path is null); it is raised
\* before any rule evaluator has run, no result is produced, and the outcome
\* differs from a validation failure, which returns (False, errors).
FailedLookup == {"KeyError", "TypeError"}

C7_LookupErrorIsFatal ==
  /\ (~HasOrganization(spec) /\ pc # "resolve") =>
       /\ exc \in FailedLookup
       /\ result = NoResult
       /\ all_errors = <<>> /\ errors = <<>>
       /\ pc \in {"exit", "done"}
  /\ (Returned /\ ~result[1].valid) => exc = ""

C7_Witness ==
  /\ ~HasOrganization(spec)
  /\ pc = "done"
  /\ exc = "KeyError"
  /\ Len(data) >= 1

\* C8: a known field whose value violates both its declared type and its
\* enum produces the type error and the enum error in one pass.
ViolatesType(i) ==
  /\ DeclaredType(i) \in {"string", "integer", "number", "array", "object"}
  /\ ~IsInstance(data[i].value, DeclaredType(i))

ViolatesEnum(i) ==
  /\ "enum" \in DOMAIN FieldSchema(i)
  /\ \A k \in 1..Len(FieldSchema(i).enum) : ~PyEq(data[i].value, FieldSchema(i).enum[k])

C8_TypeAndEnumErrors ==
  (HasOrganization(spec) /\ pc = "done") =>
    \A i \in 1..Len(data) :
      (Known(i) /\ ViolatesType(i) /\ ViolatesEnum(i)) =>
        /\ Returned
        /\ HasMsg(result[1].errors, data[i].name, "must be")
        /\ HasMsg(result[1].errors, data[i].name, "not in allowed values")

\* C9: length and range bounds are inclusive: a string of at most maxLength
\* and at least minLength characters gets no length error, one character
\* more or less gets "too long" or "too short"; a number from minimum to
\* maximum gets no range error, one unit less or more gets "below minimum"
\* or "above maximum".
Bounded(i, key, msg, out) ==
  key \in DOMAIN FieldSchema(i) =>
    /\ HasMsg(result[1].errors, data[i].name, msg) <=> out
    /\ out => Has(result[1].errors,
                  BoundError(msg, data[i].name, FieldSchema(i)[key]))

C9_InclusiveBounds ==
  Returned =>
    \A i \in 1..Len(data) :
      Known(i) =>
        LET fs == FieldSchema(i)
            v  == data[i].value
        IN  /\ (DeclaredType(i) = "string" /\ v.t = "str") =>
                 /\ Bounded(i, "minLength", "too short",
                            Len(v.s) <= fs.minLength - 1)
                 /\ Bounded(i, "maxLength", "too long",
                            Len(v.s) >= fs.maxLength + 1)
            /\ (DeclaredType(i) \in {"integer", "number"} /\ v.t \in {"int", "float"}) =>
                 /\ Bounded(i, "minimum", "below minimum", v.n <= fs.minimum - 1)
                 /\ Bounded(i, "maximum", "above maximum", v.n >= fs.maximum + 1)

C9_Witness ==
  /\ Returned
  /\ \E i, j \in 1..Len(data) :
       /\ Known(i) /\ DeclaredType(i) = "string" /\ data[i].value.t = "str"
       /\ "maxLength" \in DOMAIN FieldSchema(i)
       /\ Len(data[i].value.s) = FieldSchema(i).maxLength
       /\ ~HasMsg(result[1].errors, data[i].name, "too long")
       /\ Known(j) /\ DeclaredType(j) = "integer" /\ data[j].value.t = "int"
       /\ "minimum" \in DOMAIN FieldSchema(j)
       /\ data[j].value.n = FieldSchema(j).minimum - 1
       /\ HasMsg(result[1].errors, data[j].name, "below minimum")

\* C10: a known field whose schema declares a format but whose declared type
\* is absent or is not string never gets an "is not a valid" error.
C10_FormatOnlyUnderString ==
  Returned =>
    \A i \in 1..Len(data) :
      (Known(i) /\ "format" \in DOMAIN FieldSchema(i) /\ DeclaredType(i) # "string")
        => ~HasMsg(result[1].errors, data[i].name, "is not a valid")

\* C10 as amended: the format check is applied whenever the field schema has
\* a format, whatever the declared type: a string value gets the "is not a
\* valid UUID/email/URI" error exactly when it fails the format.
FormatKind(format) ==
  CASE format = "uuid" -> "UUID" [] format = "email" -> "email" [] format = "uri" -> "URI"

Conforms(format, s) ==
  CASE format = "uuid"  -> is_valid_uuid(s)
    [] format = "email" -> \E k \in 1..Len(s) : s[k] = "@"
    [] format = "uri"   -> StartsWith(s, HttpPrefix) \/ StartsWith(s, HttpsPrefix)

C10_FormatWhateverTheType ==
  Returned =>
    \A i \in 1..Len(data) :
      (Known(i) /\ "format" \in DOMAIN FieldSchema(i) /\ data[i].value.t = "str") =>
        LET format == FieldSchema(i).format
        IN  /\ HasMsg(result[1].errors, data[i].name, "is not a valid")
                <=> ~Conforms(format, data[i].value.s)
            /\ ~Conforms(format, data[i].value.s) =>
                 Has(result[1].errors, FormatError(data[i].name, FormatKind(format)))

C10_Witness ==
  /\ Returned
  /\ \E i, j \in 1..Len(data) :
       /\ Known(i) /\ "type" \notin DOMAIN FieldSchema(i)
       /\ HasMsg(result[1].errors, data[i].name, "is not a valid")
       /\ Known(j) /\ DeclaredType(j) = "integer"
       /\ HasMsg(result[1].errors, data[j].name, "is not a valid")

====
